---- MODULE Spec2Model ----
(***************************************************************************)
(* Vessel tracker: main.py (single prediction cycle, run at module level), *)
(* vessel_data_script.py (repeated cycles) and the record schema read by   *)
(* visualize_ships.py.                                                     *)
(*                                                                         *)
(* Numbers.  Python floats are modelled in fixed point.  Positions and     *)
(* courses are whole degrees; an angle inside a formula is a count of      *)
(* half degrees ("ticks", the resolution of SinTable); a sine or cosine    *)
(* is an integer scaled by Scale.  NaN is a sentinel integer.              *)
(***************************************************************************)
EXTENDS Integers, Sequences, FiniteSets, TLC

VARIABLES
    program,               \* which script the interpreter was started on
    pc,                    \* position of the control flow
    raised,                \* exception that escaped to the top level, or "none"
    result,                \* main.py: result (predicted_df is the same object)
    new_result,            \* main.py: new_result
    total_iterations,      \* vessel_data_script.py: total_iterations
    i,                     \* vessel_data_script.py: loop index
    vessel_data,           \* vessel_data_script.py: vessel_data
    new_vessel_data,       \* vessel_data_script.py: new_vessel_data
    combined_vessel_data,  \* vessel_data_script.py: combined_vessel_data
    csv_file,              \* the file at save_to_csv's file_path
    calls,                 \* history: calls made since the cycle's first fetch
    sampled,               \* history: outcome of the cycle's first fetch
    resampled,             \* history: outcome of the cycle's second fetch
    elapsed,               \* history: minutes slept since the cycle's first fetch
    samplings,             \* history: number of cycles started
    visualized,            \* history: the frames handed to visualize_ships
    saved,                 \* history: the frames handed to save_to_csv
    batch,                 \* geodesy harness: the frame under test
    stage,                 \* geodesy harness: position
    time_minutes,          \* geodesy harness: minutes to project over
    tolerance              \* geodesy harness: radius_km of the check

vars == << program, pc, raised, result, new_result, total_iterations, i,
           vessel_data, new_vessel_data, combined_vessel_data, csv_file,
           calls, sampled, resampled, elapsed, samplings, visualized, saved,
           batch, stage, time_minutes, tolerance >>

-----------------------------------------------------------------------------
(* Fixed-point trigonometry (math.sin, cos, asin, atan2, sqrt, radians,    *)
(* degrees imported at main.py line 4).                                    *)

Scale == 10000

NaN == -999999

\* SinTable[h + 1] = round(Scale * sin(h / 2 degrees)), h = 0 .. 180.
SinTable ==
    << 0, 87, 175, 262, 349, 436, 523, 610, 698, 785,
       872, 958, 1045, 1132, 1219, 1305, 1392, 1478, 1564, 1650,
       1736, 1822, 1908, 1994, 2079, 2164, 2250, 2334, 2419, 2504,
       2588, 2672, 2756, 2840, 2924, 3007, 3090, 3173, 3256, 3338,
       3420, 3502, 3584, 3665, 3746, 3827, 3907, 3987, 4067, 4147,
       4226, 4305, 4384, 4462, 4540, 4617, 4695, 4772, 4848, 4924,
       5000, 5075, 5150, 5225, 5299, 5373, 5446, 5519, 5592, 5664,
       5736, 5807, 5878, 5948, 6018, 6088, 6157, 6225, 6293, 6361,
       6428, 6494, 6561, 6626, 6691, 6756, 6820, 6884, 6947, 7009,
       7071, 7133, 7193, 7254, 7314, 7373, 7431, 7490, 7547, 7604,
       7660, 7716, 7771, 7826, 7880, 7934, 7986, 8039, 8090, 8141,
       8192, 8241, 8290, 8339, 8387, 8434, 8480, 8526, 8572, 8616,
       8660, 8704, 8746, 8788, 8829, 8870, 8910, 8949, 8988, 9026,
       9063, 9100, 9135, 9171, 9205, 9239, 9272, 9304, 9336, 9367,
       9397, 9426, 9455, 9483, 9511, 9537, 9563, 9588, 9613, 9636,
       9659, 9681, 9703, 9724, 9744, 9763, 9781, 9799, 9816, 9833,
       9848, 9863, 9877, 9890, 9903, 9914, 9925, 9936, 9945, 9954,
       9962, 9969, 9976, 9981, 9986, 9990, 9994, 9997, 9998, 10000,
       10000 >>

\* Round-to-nearest integer quotient, den > 0.
RoundDiv(num, den) == (2 * num + den) \div (2 * den)

\* radians(x): whole degrees to ticks.
Radians(deg) == 2 * deg

\* degrees(x): ticks to whole degrees, to the nearest degree.
Degrees(ticks) == RoundDiv(ticks, 2)

\* sin of an angle in ticks (period 720 ticks).
Sin(t) ==
    LET r == t % 720
    IN  IF r <= 180 THEN SinTable[r + 1]
        ELSE IF r <= 360 THEN SinTable[360 - r + 1]
        ELSE IF r <= 540 THEN 0 - SinTable[r - 360 + 1]
        ELSE 0 - SinTable[720 - r + 1]

Cos(t) == Sin(t + 180)

\* Largest h in lo .. hi with sin(midpoint of ticks h-1 and h) <= a (lo if none).
RECURSIVE AsinSearch(_, _, _)
AsinSearch(a, lo, hi) ==
    IF lo >= hi THEN lo
    ELSE LET h == (lo + hi + 1) \div 2
         IN  IF Sin(h) + Sin(h - 1) <= 2 * a THEN AsinSearch(a, h, hi)
             ELSE AsinSearch(a, lo, h - 1)

\* asin of a scaled value: the nearest tick in -180 .. 180.
Asin(v) ==
    IF v < 0 THEN 0 - AsinSearch(0 - v, 0, 180) ELSE AsinSearch(v, 0, 180)

\* Largest h in lo .. hi with tan(midpoint of ticks h-1 and h) <= y / x (lo if
\* none); that tangent is (sin h + sin(h-1)) / (cos h + cos(h-1)).
RECURSIVE AtanSearch(_, _, _, _)
AtanSearch(y, x, lo, hi) ==
    IF lo >= hi THEN lo
    ELSE LET h == (lo + hi + 1) \div 2
         IN  IF (Sin(h) + Sin(h - 1)) * x <= (Cos(h) + Cos(h - 1)) * y
             THEN AtanSearch(y, x, h, hi)
             ELSE AtanSearch(y, x, lo, h - 1)

\* atan2 for y >= 0, x >= 0, not both 0: the nearest tick in 0 .. 180.
AtanQuadrant(y, x) == AtanSearch(y, x, 0, 180)

\* atan2(y, x) in ticks, in -360 .. 360; atan2(0, 0) = 0.
Atan2(y, x) ==
    LET ay == IF y < 0 THEN 0 - y ELSE y
        ax == IF x < 0 THEN 0 - x ELSE x
        q  == IF ay = 0 /\ ax = 0 THEN 0
              ELSE IF x >= 0 THEN AtanQuadrant(ay, ax)
              ELSE 360 - AtanQuadrant(ay, ax)
    IN  IF y < 0 THEN 0 - q ELSE q

RECURSIVE SqrtSearch(_, _, _)
SqrtSearch(n, lo, hi) ==
    IF lo >= hi THEN lo
    ELSE LET mid == (lo + hi + 1) \div 2
         IN  IF mid * mid <= n THEN SqrtSearch(n, mid, hi)
             ELSE SqrtSearch(n, lo, mid - 1)

\* sqrt of a value scaled by Scale * Scale, result scaled by Scale.
Sqrt(n) == SqrtSearch(n, 0, 2 * Scale)

-----------------------------------------------------------------------------
(* Geodesy: main.py lines 60-85.                                           *)

\* Earth radius in thousandths of a nautical mile (3440.065 nm).
earth_radius_nm == 3440065

earth_radius_km == 6371

\* Thousandths of a nautical mile of arc per tick: earth_radius_nm * pi / 360.
NmPerTick == (earth_radius_nm * 355) \div (113 * 360)

\* predict_position with no normalisation of the longitude (as the code).
PredictPosition(latitude, longitude, course, speed, minutes) ==
    IF NaN \in {latitude, longitude, course, speed, minutes}
    THEN << NaN, NaN >>
    ELSE
    LET lat == Radians(latitude)
        lon == Radians(longitude)
        crs == Radians(course)
        distance_nm == ((speed * 1000) \div 60) * minutes
        d == RoundDiv(distance_nm, NmPerTick)
        predicted_latitude ==
            Asin((Sin(lat) * Cos(d)) \div Scale
                 + (((Cos(lat) * Sin(d)) \div Scale) * Cos(crs)) \div Scale)
        predicted_longitude ==
            lon + Atan2((((Sin(crs) * Sin(d)) \div Scale) * Cos(lat)) \div Scale,
                        Cos(d) - (Sin(lat) * Sin(predicted_latitude)) \div Scale)
    IN  << Degrees(predicted_latitude), Degrees(predicted_longitude) >>

\* haversine, in whole kilometres; NaN in, NaN out.
Haversine(lat1, lon1, lat2, lon2) ==
    IF NaN \in {lat1, lon1, lat2, lon2} THEN NaN
    ELSE
    LET delta_lat == Radians(lat2 - lat1)
        delta_lon == Radians(lon2 - lon1)
        slat == Sin(delta_lat \div 2)
        slon == Sin(delta_lon \div 2)
        a == slat * slat
             + ((((Cos(Radians(lat1)) * Cos(Radians(lat2))) \div Scale) * slon)
                    \div Scale) * slon
        angle == Atan2(Sqrt(a), Sqrt(Scale * Scale - a))
    IN  (2 * earth_radius_km * angle * 355) \div (113 * 360)

IsPointWithinCircle_Strict(center_lat, center_lon, radius_km, point_lat, point_lon) ==
    LET d == Haversine(center_lat, center_lon, point_lat, point_lon)
    IN  d # NaN /\ d < radius_km

\* is_point_within_circle; a comparison with NaN is False.
IsPointWithinCircle(center_lat, center_lon, radius_km, point_lat, point_lon) ==
    LET d == Haversine(center_lat, center_lon, point_lat, point_lon)
    IN  d # NaN /\ d <= radius_km

-----------------------------------------------------------------------------
(* Data frames.  A frame is its set of columns and its rows in index       *)
(* order (a RangeIndex 0 .. n-1); a row is a function from the columns.    *)

Frame(columns, rowseq) == [cols |-> columns, rows |-> rowseq]

\* DataFrame.empty: an axis of length 0.
Empty_Never(df) == FALSE

Empty(df) == df.rows = << >> \/ df.cols = {}

\* What a call hands back: the frame, or the exception it raised.
Return(df) == [exc |-> "none", df |-> df]

Raise(name, df) == [exc |-> name, df |-> df]

\* df[col] = values, values one per row (a list of len(df)).
SetColumn(df, col, values) ==
    Frame(df.cols \cup {col},
          [k \in 1..Len(df.rows) |->
              [c \in df.cols \cup {col} |->
                  IF c = col THEN values[k] ELSE df.rows[k][c]]])

\* df[col] = other[src]: a Series is aligned on the index, so row k takes
\* other's row k, and NaN where other has no row k.
AlignedColumn(df, other, src) ==
    [k \in 1..Len(df.rows) |->
        IF k <= Len(other.rows) THEN other.rows[k][src] ELSE NaN]

keys_to_include ==
    {"MMSI", "NAME", "LATITUDE", "LONGITUDE", "COG", "SOG", "VESSEL_TYPE"}

\* get_vessel_data on the outcome of the HTTP call: a RequestException
\* (timeout, transport, status) gives a one-row frame with the column
\* "error"; a response gives the selected columns of its records.
GetVesselData(response) ==
    IF response.kind = "fail"
    THEN Frame({"error"}, << [c \in {"error"} |-> "API call failed"] >>)
    ELSE Frame(keys_to_include, response.data)

\* predict_future_positions: row['LATITUDE'] etc. raise KeyError on the
\* first row of a frame without these columns; the frame is changed in place
\* only after the loop.
PredictFuturePositions(df, minutes) ==
    IF df.rows # << >> /\ ~({"LATITUDE", "LONGITUDE", "COG", "SOG"} \subseteq df.cols)
    THEN Raise("KeyError", df)
    ELSE
    LET p(k) == PredictPosition(df.rows[k]["LATITUDE"], df.rows[k]["LONGITUDE"],
                                df.rows[k]["COG"], df.rows[k]["SOG"], minutes)
        predicted_latitudes  == [k \in 1..Len(df.rows) |-> p(k)[1]]
        predicted_longitudes == [k \in 1..Len(df.rows) |-> p(k)[2]]
    IN  Return(SetColumn(SetColumn(df, "PREDICTED_LATITUDE", predicted_latitudes),
                         "PREDICTED_LONGITUDE", predicted_longitudes))

\* check_within_radius: one verdict per row, in row order.
CheckWithinRadius(df, radius) ==
    IF df.rows # << >>
       /\ ~({"PREDICTED_LATITUDE", "PREDICTED_LONGITUDE",
             "NEW_LATITUDE", "NEW_LONGITUDE"} \subseteq df.cols)
    THEN Raise("KeyError", df)
    ELSE
    LET results ==
            [k \in 1..Len(df.rows) |->
                IF IsPointWithinCircle(df.rows[k]["PREDICTED_LATITUDE"],
                                       df.rows[k]["PREDICTED_LONGITUDE"], radius,
                                       df.rows[k]["NEW_LATITUDE"],
                                       df.rows[k]["NEW_LONGITUDE"])
                THEN "True" ELSE "False"]
    IN  Return(SetColumn(df, "WITHIN_RADIUS", results))

\* df['NEW_LATITUDE'] = new['LATITUDE']; df['NEW_LONGITUDE'] = new['LONGITUDE']:
\* new['LATITUDE'] raises KeyError when new has no such column.
MergeNew(df, new) ==
    IF ~({"LATITUDE", "LONGITUDE"} \subseteq new.cols)
    THEN Raise("KeyError", df)
    ELSE Return(SetColumn(SetColumn(df, "NEW_LATITUDE",
                                    AlignedColumn(df, new, "LATITUDE")),
                          "NEW_LONGITUDE", AlignedColumn(df, new, "LONGITUDE")))

\* The columns visualize_ships reads from every row.
visualize_columns ==
    {"LATITUDE", "LONGITUDE", "NAME", "VESSEL_TYPE",
     "PREDICTED_LATITUDE", "PREDICTED_LONGITUDE", "WITHIN_RADIUS"}

\* visualize_ships: "none", or the KeyError of the first row read.
VisualizeShips(df) ==
    IF df.rows # << >> /\ ~(visualize_columns \subseteq df.cols)
    THEN "KeyError" ELSE "none"

\* The value pandas fills a missing cell with.
Missing(c) == IF c = "WITHIN_RADIUS" THEN "NaN" ELSE NaN

RECURSIVE ConcatCols(_)
ConcatCols(frames) ==
    IF frames = << >> THEN {}
    ELSE Head(frames).cols \cup ConcatCols(Tail(frames))

RECURSIVE ConcatRows(_, _)
ConcatRows(frames, columns) ==
    IF frames = << >> THEN << >>
    ELSE [k \in 1..Len(Head(frames).rows) |->
             [c \in columns |->
                 IF c \in Head(frames).cols THEN Head(frames).rows[k][c]
                 ELSE Missing(c)]]
         \o ConcatRows(Tail(frames), columns)

\* pd.concat(frames, ignore_index=True): the union of the columns, the rows
\* in order, NaN where a frame lacks a column.
Concat(frames) == Frame(ConcatCols(frames), ConcatRows(frames, ConcatCols(frames)))

-----------------------------------------------------------------------------
(* The CSV file of save_to_csv: main.py lines 172-182.                     *)

NoFile == [exists |-> FALSE, lines |-> << >>]

\* A line of the file: the header (the column names) or one row's cells.
HeaderLine(df) == [kind |-> "header", text |-> df.cols]

RowLines(df) == [k \in 1..Len(df.rows) |-> [kind |-> "row", text |-> df.rows[k]]]

SaveToCsv_HeaderAlways(file, df) ==
    [exists |-> TRUE, lines |-> file.lines \o << HeaderLine(df) >> \o RowLines(df)]

\* save_to_csv: append; the header only when the file does not exist yet.
SaveToCsv(file, df) ==
    [exists |-> TRUE,
     lines  |-> file.lines
                \o (IF file.exists THEN << >> ELSE << HeaderLine(df) >>)
                \o RowLines(df)]

-----------------------------------------------------------------------------
(* Configuration (config.yaml, read with these defaults) and the responses  *)
(* of the tracking API.                                                    *)

prediction_time_minutes == 10

radius_km == 10

interval_minutes == 2

\* Largest total_duration_minutes // interval_minutes explored.
MaxIterations == 2

Vessel(mmsi, name, type, lat, lon, cog, sog) ==
    [c \in keys_to_include |->
        CASE c = "MMSI" -> mmsi
          [] c = "NAME" -> name
          [] c = "VESSEL_TYPE" -> type
          [] c = "LATITUDE" -> lat
          [] c = "LONGITUDE" -> lon
          [] c = "COG" -> cog
          [] c = "SOG" -> sog]

\* Two vessels in the search area: one at anchor, one under way.
Alfa == Vessel(1, "ALFA", "Cargo", 0, 0, 90, 0)

Bravo == Vessel(2, "BRAVO", "Tanker", 10, 20, 90, 120)

\* The record lists a response can carry: any subset, in any order.
Reports == { << >>, << Alfa >>, << Bravo >>, << Alfa, Bravo >>, << Bravo, Alfa >> }

\* Outcomes of requests.post(...): a RequestException, or a response.
Responses ==
    {[kind |-> "fail", data |-> << >>]} \cup {[kind |-> "ok", data |-> d] : d \in Reports}

NoFrame == Frame({}, << >>)

\* What a fetch came back with: "failed" (RequestException), "empty" (no
\* records) or "records".
Outcome(response) ==
    IF response.kind = "fail" THEN "failed"
    ELSE IF response.data = << >> THEN "empty" ELSE "records"

-----------------------------------------------------------------------------
(* main.py, lines 127-170: the program run at module level, also when      *)
(* vessel_data_script.py imports main (its line 11).                       *)

\* predicted_df is bound to the frame predict_future_positions changed in
\* place and returned: the same object as result.
predicted_df == result

Harness == << batch, stage, time_minutes, tolerance >>

Script == << total_iterations, i, vessel_data, new_vessel_data,
             combined_vessel_data, csv_file, saved >>

\* Where control goes when main.py's module body has run.
AfterMain == IF program = "main.py" THEN "done" ELSE "script_start"

\* An exception escapes: the interpreter prints the traceback and exits.
Crash(name) == pc' = "crashed" /\ raised' = name

\* result = get_vessel_data(...), lines 128-133.
MainSample ==
    /\ pc = "main_sample"
    /\ \E response \in Responses :
          /\ result' = GetVesselData(response)
          /\ sampled' = Outcome(response)
    /\ resampled' = "none"
    /\ calls' = << "get_vessel_data" >>
    /\ samplings' = samplings + 1
    /\ elapsed' = 0
    /\ pc' = "main_sampled"
    /\ UNCHANGED << program, raised, new_result, visualized, Script, Harness >>

\* if result.empty: print(...), lines 136-137.
MainNoData ==
    /\ pc = "main_sampled"
    /\ Empty(result)
    /\ calls' = Append(calls, "no_data")
    /\ pc' = AfterMain
    /\ UNCHANGED << program, raised, result, new_result, sampled, resampled, elapsed,
                    samplings, visualized, Script, Harness >>

\* else: predicted_df = predict_future_positions(result, ...), lines 138-140.
MainPredict ==
    /\ pc = "main_sampled"
    /\ ~Empty(result)
    /\ calls' = Append(calls, "predict_future_positions")
    /\ LET r == PredictFuturePositions(result, prediction_time_minutes)
       IN  IF r.exc # "none"
           THEN Crash(r.exc) /\ UNCHANGED result
           ELSE result' = r.df /\ pc' = "main_predicted" /\ UNCHANGED raised
    /\ UNCHANGED << program, new_result, sampled, resampled, elapsed, samplings,
                    visualized, Script, Harness >>

\* start_timer(prediction_time_minutes), line 143.
MainTimer ==
    /\ pc = "main_predicted"
    /\ calls' = Append(calls, "start_timer")
    /\ elapsed' = elapsed + prediction_time_minutes
    /\ pc' = "main_waited"
    /\ UNCHANGED << program, raised, result, new_result, sampled, resampled, samplings,
                    visualized, Script, Harness >>

\* new_result = get_vessel_data(...), lines 146-151.
MainResample ==
    /\ pc = "main_waited"
    /\ \E response \in Responses :
          /\ new_result' = GetVesselData(response)
          /\ resampled' = Outcome(response)
    /\ calls' = Append(calls, "get_vessel_data")
    /\ pc' = "main_resampled"
    /\ UNCHANGED << program, raised, result, sampled, elapsed, samplings, visualized,
                    Script, Harness >>

\* if not new_result.empty: merge and check_within_radius; else print,
\* lines 154-162.
MainClassify ==
    /\ pc = "main_resampled"
    /\ IF ~Empty(new_result)
       THEN LET m == MergeNew(predicted_df, new_result)
                r == CheckWithinRadius(m.df, radius_km)
            IN  IF m.exc # "none"
                THEN Crash(m.exc) /\ UNCHANGED << result, calls >>
                ELSE /\ calls' = Append(calls, "check_within_radius")
                     /\ IF r.exc # "none"
                        THEN Crash(r.exc) /\ result' = m.df
                        ELSE result' = r.df /\ pc' = "main_classified"
                             /\ UNCHANGED raised
       ELSE /\ pc' = "main_classified"
            /\ UNCHANGED << raised, result, calls >>
    /\ UNCHANGED << program, new_result, sampled, resampled, elapsed, samplings,
                    visualized, Script, Harness >>

\* if not result.empty: predict again, check_within_radius, visualize_ships;
\* else print, lines 164-170.
MainVisualize ==
    /\ pc = "main_classified"
    /\ IF ~Empty(result)
       THEN LET p == PredictFuturePositions(result, prediction_time_minutes)
                r == CheckWithinRadius(p.df, radius_km)
            IN  IF p.exc # "none"
                THEN /\ Crash(p.exc)
                     /\ calls' = Append(calls, "predict_future_positions")
                     /\ UNCHANGED << result, visualized >>
                ELSE IF r.exc # "none"
                THEN /\ Crash(r.exc)
                     /\ calls' = calls \o << "predict_future_positions",
                                             "check_within_radius" >>
                     /\ result' = p.df
                     /\ UNCHANGED visualized
                ELSE /\ result' = r.df
                     /\ calls' = calls \o << "predict_future_positions",
                                             "check_within_radius",
                                             "visualize_ships" >>
                     /\ visualized' = Append(visualized, r.df)
                     /\ IF VisualizeShips(r.df) # "none"
                        THEN Crash(VisualizeShips(r.df))
                        ELSE pc' = AfterMain /\ UNCHANGED raised
       ELSE /\ pc' = AfterMain
            /\ UNCHANGED << raised, result, calls, visualized >>
    /\ UNCHANGED << program, new_result, sampled, resampled, elapsed, samplings,
                    Script, Harness >>

-----------------------------------------------------------------------------
(* vessel_data_script.py, lines 42-99: retrieve_vessel_data_periodically.  *)

Main == << result, new_result >>

\* total_iterations = total_duration_minutes // interval_minutes;
\* combined_vessel_data = [], lines 43-44 (called from line 93).
ScriptStart ==
    /\ pc = "script_start"
    /\ \E total_duration_minutes \in 0..(MaxIterations * interval_minutes + 1) :
          total_iterations' = total_duration_minutes \div interval_minutes
    /\ combined_vessel_data' = << >>
    /\ i' = 0
    /\ pc' = "loop_head"
    /\ UNCHANGED << program, raised, Main, vessel_data, new_vessel_data, csv_file,
                    calls, sampled, resampled, elapsed, samplings, visualized, saved,
                    Harness >>

\* for i in range(total_iterations): vessel_data = get_vessel_data(...),
\* lines 46-49.
LoopSample ==
    /\ pc = "loop_head"
    /\ i < total_iterations
    /\ \E response \in Responses :
          /\ vessel_data' = GetVesselData(response)
          /\ sampled' = Outcome(response)
    /\ resampled' = "none"
    /\ calls' = << "get_vessel_data" >>
    /\ samplings' = samplings + 1
    /\ elapsed' = 0
    /\ pc' = "loop_sampled"
    /\ UNCHANGED << program, raised, Main, total_iterations, i, new_vessel_data,
                    combined_vessel_data, csv_file, visualized, saved, Harness >>

\* else: print("No vessel data ..."), lines 75-76.
LoopNoData ==
    /\ pc = "loop_sampled"
    /\ Empty(vessel_data)
    /\ calls' = Append(calls, "no_data")
    /\ pc' = "loop_interval"
    /\ UNCHANGED << program, raised, Main, total_iterations, i, vessel_data,
                    new_vessel_data, combined_vessel_data, csv_file, sampled, resampled,
                    elapsed, samplings, visualized, saved, Harness >>

\* vessel_data = predict_future_positions(vessel_data, ...), lines 50-52.
LoopPredict ==
    /\ pc = "loop_sampled"
    /\ ~Empty(vessel_data)
    /\ calls' = Append(calls, "predict_future_positions")
    /\ LET r == PredictFuturePositions(vessel_data, prediction_time_minutes)
       IN  IF r.exc # "none"
           THEN Crash(r.exc) /\ UNCHANGED vessel_data
           ELSE vessel_data' = r.df /\ pc' = "loop_predicted" /\ UNCHANGED raised
    /\ UNCHANGED << program, Main, total_iterations, i, new_vessel_data,
                    combined_vessel_data, csv_file, sampled, resampled, elapsed, samplings,
                    visualized, saved, Harness >>

\* new_vessel_data = get_vessel_data(...), line 54: no timer before it.
LoopResample ==
    /\ pc = "loop_predicted"
    /\ \E response \in Responses :
          /\ new_vessel_data' = GetVesselData(response)
          /\ resampled' = Outcome(response)
    /\ calls' = Append(calls, "get_vessel_data")
    /\ pc' = "loop_resampled"
    /\ UNCHANGED << program, raised, Main, total_iterations, i, vessel_data,
                    combined_vessel_data, csv_file, sampled, elapsed, samplings, visualized,
                    saved, Harness >>

\* if not new_vessel_data.empty: merge and check_within_radius, lines 55-58.
LoopClassify ==
    /\ pc = "loop_resampled"
    /\ IF ~Empty(new_vessel_data)
       THEN LET m == MergeNew(vessel_data, new_vessel_data)
                r == CheckWithinRadius(m.df, radius_km)
            IN  IF m.exc # "none"
                THEN Crash(m.exc) /\ UNCHANGED << vessel_data, calls >>
                ELSE /\ calls' = Append(calls, "check_within_radius")
                     /\ IF r.exc # "none"
                        THEN Crash(r.exc) /\ vessel_data' = m.df
                        ELSE vessel_data' = r.df /\ pc' = "loop_classified"
                             /\ UNCHANGED raised
       ELSE /\ pc' = "loop_classified"
            /\ UNCHANGED << raised, vessel_data, calls >>
    /\ UNCHANGED << program, Main, total_iterations, i, new_vessel_data,
                    combined_vessel_data, csv_file, sampled, resampled, elapsed, samplings,
                    visualized, saved, Harness >>

\* save_to_csv(vessel_data); combined_vessel_data.append(vessel_data),
\* lines 71-74.
LoopSave ==
    /\ pc = "loop_classified"
    /\ csv_file' = SaveToCsv(csv_file, vessel_data)
    /\ saved' = Append(saved, vessel_data)
    /\ combined_vessel_data' = Append(combined_vessel_data, vessel_data)
    /\ calls' = calls \o << "save_to_csv", "append" >>
    /\ pc' = "loop_interval"
    /\ UNCHANGED << program, raised, Main, total_iterations, i, vessel_data,
                    new_vessel_data, sampled, resampled, elapsed, samplings, visualized,
                    Harness >>

\* if i < total_iterations - 1: sleep interval_minutes * 60 seconds; then the
\* next i, lines 77-80.
LoopInterval ==
    /\ pc = "loop_interval"
    /\ elapsed' = IF i < total_iterations - 1 THEN elapsed + interval_minutes
                  ELSE elapsed
    /\ i' = i + 1
    /\ pc' = "loop_head"
    /\ UNCHANGED << program, raised, Main, total_iterations, vessel_data,
                    new_vessel_data, combined_vessel_data, csv_file, calls,
                    sampled, resampled, samplings, visualized, saved, Harness >>

\* After the loop: concat and visualize_ships, or print, lines 81-88.
ScriptFinish ==
    /\ pc = "loop_head"
    /\ i >= total_iterations
    /\ IF combined_vessel_data # << >>
       THEN LET final_vessel_data == Concat(combined_vessel_data)
            IN  /\ visualized' = Append(visualized, final_vessel_data)
                /\ IF VisualizeShips(final_vessel_data) # "none"
                   THEN Crash(VisualizeShips(final_vessel_data))
                   ELSE pc' = "done" /\ UNCHANGED raised
       ELSE pc' = "done" /\ UNCHANGED << raised, visualized >>
    /\ UNCHANGED << program, Main, total_iterations, i, vessel_data,
                    new_vessel_data, combined_vessel_data, csv_file, calls,
                    sampled, resampled, elapsed, samplings, saved, Harness >>

-----------------------------------------------------------------------------
(* The two programs.                                                       *)

HarnessIdle ==
    /\ batch = NoFrame
    /\ stage = "idle"
    /\ time_minutes = 0
    /\ tolerance = 0

ProgramIdle ==
    /\ raised = "none"
    /\ result = NoFrame
    /\ new_result = NoFrame
    /\ total_iterations = 0
    /\ i = 0
    /\ vessel_data = NoFrame
    /\ new_vessel_data = NoFrame
    /\ combined_vessel_data = << >>
    /\ csv_file = NoFile
    /\ calls = << >>
    /\ sampled = "none"
    /\ resampled = "none"
    /\ elapsed = 0
    /\ samplings = 0
    /\ visualized = << >>
    /\ saved = << >>

Init ==
    /\ program \in {"main.py", "vessel_data_script.py"}
    /\ pc = "main_sample"
    /\ ProgramIdle
    /\ HarnessIdle

Next ==
    \/ MainSample
    \/ MainNoData
    \/ MainPredict
    \/ MainTimer
    \/ MainResample
    \/ MainClassify
    \/ MainVisualize
    \/ ScriptStart
    \/ LoopSample
    \/ LoopNoData
    \/ LoopPredict
    \/ LoopResample
    \/ LoopClassify
    \/ LoopSave
    \/ LoopInterval
    \/ ScriptFinish

Spec == Init /\ [][Next]_vars

-----------------------------------------------------------------------------
(* Geodesy harness: predict_future_positions and check_within_radius on    *)
(* batches of observations, with the later observation placed at a chosen  *)
(* offset from the predicted position.                                     *)

GeoObservations ==
    { Vessel(1, "ALFA", "Cargo", lat, lon, cog, sog) :
        lat \in {0, 60}, lon \in {0, 179, -179}, cog \in {90, 270},
        sog \in {-1, 0, 120, NaN} }

\* One observation alone, or before or after a valid one.
GeoBatches ==
    UNION { { << o >>, << o, Bravo >>, << Bravo, o >> } : o \in GeoObservations }

\* Degrees of latitude between the prediction and the later observation.
Offsets == {0, 1, 2}

\* Radii of the tolerance circle, in km: 0, the configured 10, and the
\* distances of one and two degrees of arc.
Radii == {0, radius_km, Haversine(0, 0, 1, 0), Haversine(0, 0, 2, 0)}

\* The later observation of row k, off degrees north of its prediction (of
\* its reported position when the prediction is NaN).
Later(row, off) ==
    LET at_lat == IF row["PREDICTED_LATITUDE"] = NaN THEN row["LATITUDE"]
                  ELSE row["PREDICTED_LATITUDE"]
        at_lon == IF row["PREDICTED_LONGITUDE"] = NaN THEN row["LONGITUDE"]
                  ELSE row["PREDICTED_LONGITUDE"]
    IN  [c \in keys_to_include |->
            IF c = "LATITUDE" THEN at_lat + off
            ELSE IF c = "LONGITUDE" THEN at_lon
            ELSE row[c]]

ProgramOff ==
    /\ program = "none"
    /\ pc = "harness"
    /\ ProgramIdle

InitGeo ==
    /\ ProgramOff
    /\ batch \in { Frame(keys_to_include, b) : b \in GeoBatches }
    /\ stage = "input"
    /\ time_minutes \in {0, 60}
    /\ tolerance \in Radii

Program == << program, pc, raised, Main, Script, calls, sampled, resampled,
              elapsed, samplings, visualized >>

\* predict_future_positions(batch, time_minutes), main.py lines 89-103.
GeoPredict ==
    /\ stage = "input"
    /\ batch' = PredictFuturePositions(batch, time_minutes).df
    /\ stage' = "predicted"
    /\ UNCHANGED << Program, time_minutes, tolerance >>

\* The later observations are merged in, as at main.py lines 155-156.
GeoObserve ==
    /\ stage = "predicted"
    /\ \E off \in [1..Len(batch.rows) -> Offsets] :
          batch' = MergeNew(batch,
                            Frame(keys_to_include,
                                  [k \in 1..Len(batch.rows) |->
                                      Later(batch.rows[k], off[k])])).df
    /\ stage' = "observed"
    /\ UNCHANGED << Program, time_minutes, tolerance >>

\* check_within_radius(batch, tolerance), main.py lines 115-124.
GeoCheck ==
    /\ stage = "observed"
    /\ batch' = CheckWithinRadius(batch, tolerance).df
    /\ stage' = "checked"
    /\ UNCHANGED << Program, time_minutes, tolerance >>

NextGeo == GeoPredict \/ GeoObserve \/ GeoCheck

SpecGeo == InitGeo /\ [][NextGeo]_vars

-----------------------------------------------------------------------------
(* Persistence harness: any sequence of save_to_csv calls on one path,     *)
(* starting from an absent file.                                           *)

\* Largest number of save_to_csv calls explored.
MaxSaves == 3

Predicted(data) ==
    PredictFuturePositions(Frame(keys_to_include, data), prediction_time_minutes).df

Classified(data, new) ==
    CheckWithinRadius(MergeNew(Predicted(data), Frame(keys_to_include, new)).df,
                      radius_km).df

\* Frames of the kinds the loop saves (predicted only, classified), and a
\* frame with no rows.
CsvFrames ==
    { Predicted(d) : d \in Reports } \cup { Classified(d, d) : d \in Reports \ {<< >>} }

InitCsv ==
    /\ ProgramOff
    /\ HarnessIdle

\* save_to_csv(df), main.py lines 172-182.
CsvSave ==
    /\ Len(saved) < MaxSaves
    /\ \E df \in CsvFrames :
          /\ csv_file' = SaveToCsv(csv_file, df)
          /\ saved' = Append(saved, df)
    /\ UNCHANGED << program, pc, raised, Main, total_iterations, i, vessel_data,
                    new_vessel_data, combined_vessel_data, calls, sampled, resampled,
                    elapsed, samplings, visualized, Harness >>

NextCsv == CsvSave

SpecCsv == InitCsv /\ [][NextCsv]_vars

-----------------------------------------------------------------------------
(* Properties.                                                             *)

Range(seq) == { seq[k] : k \in 1..Len(seq) }

\* Every row of df took its NEW_ position from a row of new with its own MMSI.
PairedByVessel(df, new) ==
    \A k \in 1..Len(df.rows) :
        \E j \in 1..Len(new.rows) :
            /\ new.rows[j]["MMSI"] = df.rows[k]["MMSI"]
            /\ df.rows[k]["NEW_LATITUDE"] = new.rows[j]["LATITUDE"]
            /\ df.rows[k]["NEW_LONGITUDE"] = new.rows[j]["LONGITUDE"]

\* C1: every classified record was compared against the later observation of
\* its own vessel (same MMSI), whatever the order or the set of vessels of
\* the second fetch; a vessel absent from the second fetch is not classified.
C1_ClassifiedAgainstSameVessel ==
    /\ (pc = "main_classified" /\ "WITHIN_RADIUS" \in result.cols)
          => PairedByVessel(result, new_result)
    /\ (pc = "loop_classified" /\ "WITHIN_RADIUS" \in vessel_data.cols)
          => PairedByVessel(vessel_data, new_vessel_data)

\* The frame the fetch just made returned, at the positions right after a fetch.
JustFetched ==
    CASE pc = "main_sampled" -> result
      [] pc = "main_resampled" -> new_result
      [] pc = "loop_sampled" -> vessel_data
      [] pc = "loop_resampled" -> new_vessel_data
      [] OTHER -> NoFrame

\* C2: a fetch that fails in transport (either fetch, any cycle) yields an
\* empty result set, no exception escapes, and no prediction is attempted on
\* a failed sampling.
C2_FailedFetchIsNoData ==
    ("failed" \in {sampled, resampled}) =>
        /\ Empty(JustFetched)
        /\ raised = "none"
        /\ sampled = "failed" => "predict_future_positions" \notin Range(calls)

\* C3: in a cycle whose first fetch yields zero records, the only things
\* that happen until the end of the cycle are that fetch and the "no data"
\* report: no prediction, second fetch, timer, check, save or append.
C3_EmptySamplingEndsCycle ==
    sampled = "empty" =>
        /\ calls \in { << "get_vessel_data" >>, << "get_vessel_data", "no_data" >> }
        /\ pc \in {"main_sampled", "loop_sampled"} <=> calls = << "get_vessel_data" >>

\* C3 witness: the second or a later cycle of the loop fetched no records,
\* after a cycle that produced data, and has reached its end.
C3_Witness ==
    /\ sampled = "empty"
    /\ pc = "loop_interval"
    /\ combined_vessel_data # << >>

\* C4: every record handed to visualize_ships carries all the columns of the
\* schema and a boolean WITHIN_RADIUS.
C4_VisualizedRecordsComplete ==
    \A n \in 1..Len(visualized) :
        \A k \in 1..Len(visualized[n].rows) :
            /\ visualize_columns \subseteq DOMAIN visualized[n].rows[k]
            /\ visualized[n].rows[k]["WITHIN_RADIUS"] \in {"True", "False"}

RECURSIVE AllRowLines(_)
AllRowLines(frames) ==
    IF frames = << >> THEN << >>
    ELSE RowLines(Head(frames)) \o AllRowLines(Tail(frames))

\* C5: after any sequence of save_to_csv calls from an absent file, the file
\* exists and is one header row, written by the first call, followed by the
\* rows of every call in call order.
C5_OneHeaderThenAllRows ==
    IF saved = << >> THEN csv_file = NoFile
    ELSE /\ csv_file.exists
         /\ csv_file.lines = << HeaderLine(saved[1]) >> \o AllRowLines(saved)

\* C5 witness: three calls, the first of a frame with rows, the later ones of
\* frames with other columns.
C5_Witness ==
    /\ Len(saved) >= 3
    /\ saved[1].rows # << >>
    /\ saved[2].cols # saved[1].cols
    /\ saved[3].rows # << >>

\* An observation predict_position is specified for.
ValidObservation(row, minutes) ==
    /\ NaN \notin {row["LATITUDE"], row["LONGITUDE"], row["COG"], row["SOG"]}
    /\ row["LATITUDE"] >= -90 /\ row["LATITUDE"] <= 90
    /\ row["LONGITUDE"] >= -180 /\ row["LONGITUDE"] <= 180
    /\ row["COG"] >= 0 /\ row["COG"] < 360
    /\ row["SOG"] >= 0
    /\ minutes >= 0

\* The row carries a predicted position (a number, not NaN).
HasPrediction(row) ==
    /\ "PREDICTED_LATITUDE" \in DOMAIN row
    /\ row["PREDICTED_LATITUDE"] # NaN
    /\ row["PREDICTED_LONGITUDE"] # NaN

\* C6: an observation with a negative or missing speed gets no predicted
\* position (it is rejected alone), the valid ones of the batch get theirs.
C6_InvalidObservationRejected ==
    stage = "predicted" =>
        \A k \in 1..Len(batch.rows) :
            HasPrediction(batch.rows[k]) <=> ValidObservation(batch.rows[k], time_minutes)

\* C7: a repeated-cycle run samples exactly total_iterations times and hands
\* the aggregated records to visualize_ships once, at the end, not before.
C7_VisualizedOnceAtDone ==
    program = "vessel_data_script.py" =>
        /\ pc \notin {"done", "crashed"} => visualized = << >>
        /\ pc = "done" =>
              /\ samplings = total_iterations
              /\ visualized = IF combined_vessel_data = << >> THEN << >>
                              ELSE << Concat(combined_vessel_data) >>

\* C8: the verdict of every classified row is "distance <= radius", boundary
\* included, and a later observation exactly at the prediction is within the
\* circle for every radius, 0 included.
C8_WithinIffDistanceAtMostRadius ==
    stage = "checked" =>
        \A k \in 1..Len(batch.rows) :
            LET row == batch.rows[k]
                d == Haversine(row["PREDICTED_LATITUDE"], row["PREDICTED_LONGITUDE"],
                               row["NEW_LATITUDE"], row["NEW_LONGITUDE"])
            IN  row["PREDICTED_LATITUDE"] # NaN =>
                    /\ row["WITHIN_RADIUS"] = "True" <=> d <= tolerance
                    /\ (/\ row["NEW_LATITUDE"] = row["PREDICTED_LATITUDE"]
                        /\ row["NEW_LONGITUDE"] = row["PREDICTED_LONGITUDE"])
                          => row["WITHIN_RADIUS"] = "True"

\* C8 witness: a row observed at a distance from its prediction that is
\* exactly the (positive) radius, with the verdict "True".
C8_Witness ==
    /\ stage = "checked"
    /\ tolerance > 0
    /\ \E k \in 1..Len(batch.rows) :
          /\ batch.rows[k]["PREDICTED_LATITUDE"] # NaN
          /\ Haversine(batch.rows[k]["PREDICTED_LATITUDE"],
                       batch.rows[k]["PREDICTED_LONGITUDE"],
                       batch.rows[k]["NEW_LATITUDE"],
                       batch.rows[k]["NEW_LONGITUDE"]) = tolerance
          /\ batch.rows[k]["WITHIN_RADIUS"] = "True"

\* C9: the second fetch of a cycle is issued only after prediction_time_minutes
\* of waiting since the first fetch of that cycle.
C9_ResampleAfterPredictionWait ==
    pc \in {"main_resampled", "loop_resampled"} => elapsed >= prediction_time_minutes

\* C10: for every valid observation the predicted longitude is in [-180, 180].
C10_PredictedLongitudeInRange ==
    stage = "predicted" =>
        \A k \in 1..Len(batch.rows) :
            ValidObservation(batch.rows[k], time_minutes) =>
                /\ batch.rows[k]["PREDICTED_LONGITUDE"] >= -180
                /\ batch.rows[k]["PREDICTED_LONGITUDE"] <= 180

====
